---- MODULE Spec2Model ----
(***************************************************************************)
(* A model of util/clustergen/cluster.py: the configuration compiler of    *)
(* the Snitch cluster generator.  Each component of the file is modelled   *)
(* by operators translated from its functions, and exercised by a          *)
(* specification of its own:                                               *)
(*   SpecIsa       parse_isa_string                                        *)
(*   SpecDefaults  extend_with_default / Generator.validate                *)
(*   SpecValidate  SnitchCluster.cfg_validate                              *)
(*   SpecAddMem    SnitchCluster.add_mem                                   *)
(*   SpecMemCfg    SnitchCluster.calc_cache_sizes / memory_cfg             *)
(*   SpecPma       PMACfg.add_region / SnitchCluster.parse_pma_cfg         *)
(*   SpecCluster   SnitchCluster.__init__ / SnitchClusterTB.__init__       *)
(***************************************************************************)
EXTENDS Integers, Sequences, FiniteSets, TLC

VARIABLES
    pc,         \* position of the running call
    s,          \* parse_isa_string: the argument
    isa_ret,    \* parse_isa_string: what the call produced
    schema,     \* Generator.root_schema
    instance,   \* the document handed to Generator.validate
    cfg,        \* SnitchCluster.cfg, the document mutated in place
    failed,     \* cfg_validate: the value returned
    warned,     \* cfg_validate: whether log.warn was called
    pma_cfg,    \* PMACfg.regions
    tb_cfg,     \* SnitchClusterTB.cfg without its 'cluster' member (which is cfg)
    tag_width,  \* SnitchCluster.tag_width
    mems,       \* SnitchCluster.mems
    mems_desc,  \* SnitchCluster.mems_desc
    calls,      \* history: the add_mem calls made so far, in call order
    reports,    \* history: what each memory_cfg call returned, in call order
    given       \* history: the document as the caller passed it

vars == <<pc, s, isa_ret, schema, instance, cfg, failed, warned, pma_cfg,
          tb_cfg, tag_width, mems, mems_desc, calls, reports, given>>

\* Python's None, and the value of an attribute that was never assigned.
None == "None"

\* ------------------------------------------------------------------------
\* Bounds of the model.
MaxIsaTail == 3
MaxTcdmSize == 128
MaxTcdmBanks == 9
MaxDmaWords == 16
MaxAddMem == 3
MaxHives == 2
MaxMemoryCfgCalls == 2
MaxRegions == 3
MaxCores == 2
MaxSchemaDepth == 2

\* ------------------------------------------------------------------------
\* Helpers on sequences.
RECURSIVE SeqsUpTo(_, _)
SeqsUpTo(S, n) ==
    IF n = 0 THEN {<<>>}
    ELSE LET shorter == SeqsUpTo(S, n - 1)
         IN  shorter \cup {Append(q, c) : q \in {r \in shorter : Len(r) = n - 1}, c \in S}

Range(q) == {q[k] : k \in 1..Len(q)}

\* ========================================================================
\* ISA string parser.  A string is a sequence of one-character strings.
\* ========================================================================
UpperCase == <<"A","B","C","D","E","F","G","H","I","J","K","L","M",
               "N","O","P","Q","R","S","T","U","V","W","X","Y","Z">>
LowerCase == <<"a","b","c","d","e","f","g","h","i","j","k","l","m",
               "n","o","p","q","r","s","t","u","v","w","x","y","z">>

\* str.lower(): a new string; the receiver is left as it is.
lower(str) ==
    [k \in 1..Len(str) |->
        IF \E n \in 1..26 : UpperCase[n] = str[k]
        THEN LowerCase[CHOOSE n \in 1..26 : UpperCase[n] = str[k]]
        ELSE str[k]]

\* class RiscvISA: the dataclass fields and their defaults.
RiscvISAFields == {"i", "e", "m", "a", "f", "d"}
RiscvISA == [t \in RiscvISAFields |-> FALSE]

\* setattr(obj, name, value): assigns the attribute, creating it when the
\* object has none of that name.
setattr(obj, name, value) ==
    [t \in DOMAIN obj \cup {name} |-> IF t = name THEN value ELSE obj[t]]

\* The character class [m|a|f|d] of RiscvISA.isa_string: inside brackets
\* the bar is a literal character.
IsaExtClass == {"m", "|", "a", "f", "d"}
IsaPrefix == <<"r", "v", "3", "2">>

\* RiscvISA.isa_string.match(str) for r"^rv32(i|e)([m|a|f|d]*)$": no match
\* (Python's None, which is false in `if m`), or the match with its groups.
\* `$` matches at the end and also just before a newline that ends the
\* string.
FullMatch(body) ==
    /\ Len(body) >= 5
    /\ SubSeq(body, 1, 4) = IsaPrefix
    /\ body[5] \in {"i", "e"}
    /\ \A k \in 6..Len(body) : body[k] \in IsaExtClass

isa_string_match(str) ==
    LET body == IF Len(str) > 0 /\ str[Len(str)] = "\n"
                THEN SubSeq(str, 1, Len(str) - 1) ELSE str
    IN  IF FullMatch(body)
        THEN [matched |-> TRUE,
              group1 |-> body[5], group2 |-> SubSeq(body, 6, Len(body))]
        ELSE [matched |-> FALSE]

RECURSIVE SetAll(_, _)
SetAll(obj, letters) ==
    IF letters = <<>> THEN obj
    ELSE SetAll(setattr(obj, Head(letters), TRUE), Tail(letters))

\* parse_isa_string(s): [raised |-> TRUE] for the ValueError, else the
\* RiscvISA returned.  The result of s.lower() is not bound to anything.
parse_isa_string(str) ==
    LET lowered == lower(str)
        m == isa_string_match(str)
    IN  IF m.matched
        THEN [raised |-> FALSE,
              isa |-> SetAll(setattr(RiscvISA, m.group1, TRUE), m.group2)]
        ELSE [raised |-> TRUE]

\* The strings parse_isa_string is applied to.
IsaPrefixes == {IsaPrefix, <<"R", "V", "3", "2">>, <<"r", "v", "6", "4">>,
                <<"r", "v", "3">>, <<" ", "r", "v", "3", "2">>}
IsaTailChars == {"i", "e", "m", "a", "f", "d", "I", "M", "z", "|", " ", "\n"}
IsaExamples == {<<"r","v","3","2","i","m","a","f","d">>,
                <<"R","V","3","2","I","M","A","F","D">>,
                <<"r","v","3","2","e","d","d","f","a","m">>}
IsaInputs == IsaExamples \cup
             {p \o t : p \in IsaPrefixes, t \in SeqsUpTo(IsaTailChars, MaxIsaTail)}

\* The parts of the state a component does not use stay unassigned.
NoIsa == s = None /\ isa_ret = None
NoSchema == schema = None /\ instance = None
NoCfg ==
    /\ cfg = None /\ given = None
    /\ failed = None /\ warned = None /\ tag_width = None
NoPma == pma_cfg = None /\ tb_cfg = None
NoMems == mems = None /\ mems_desc = None /\ calls = None /\ reports = None

InitIsa ==
    /\ pc = "parse_isa_string"
    /\ s \in IsaInputs
    /\ isa_ret = None
    /\ NoSchema /\ NoCfg /\ NoPma /\ NoMems

ParseIsa ==
    /\ pc = "parse_isa_string"
    /\ isa_ret' = parse_isa_string(s)
    /\ pc' = "done"
    /\ UNCHANGED <<s, schema, instance, cfg, failed, warned, pma_cfg, tb_cfg,
                   tag_width, mems, mems_desc, calls, reports, given>>

NextIsa == ParseIsa

SpecIsa == InitIsa /\ [][NextIsa]_vars

\* C1: parse_isa_string is case-insensitive: parsing a string and parsing
\* its lower-cased spelling either both fail or both return the same flags
\* (so "RV32IMAFD" is accepted like "rv32imafd").
IsaCaseInsensitive ==
    pc = "done" => isa_ret = parse_isa_string(lower(s))

\* The grammar of the ISA strings: "rv32", one base letter, then letters
\* among m, a, f, d.
InIsaGrammar(str) ==
    /\ Len(str) >= 5
    /\ SubSeq(str, 1, 4) = IsaPrefix
    /\ str[5] \in {"i", "e"}
    /\ \A k \in 6..Len(str) : str[k] \in {"m", "a", "f", "d"}

\* C2: parse_isa_string accepts exactly the strings of the grammar and fails
\* on every other string; for an accepted string the flags set are the base
\* letter and the extension letters that occur, and nothing else.
IsaAcceptsExactlyGrammar ==
    pc = "done" =>
        IF InIsaGrammar(s)
        THEN /\ ~isa_ret.raised
             /\ isa_ret.isa = [t \in RiscvISAFields |->
                                 t = s[5] \/ t \in Range(SubSeq(s, 6, Len(s)))]
        ELSE isa_ret.raised

\* ========================================================================
\* Cluster config validator.
\* ========================================================================
\* clog2(x) = int(ceil(log2(x))), for x >= 1: the least k with 2^k >= x.
RECURSIVE clog2from(_, _)
clog2from(x, k) == IF 2^k >= x THEN k ELSE clog2from(x, k + 1)

clog2(x) == clog2from(x, 0)

\* A faulty variant of is_pow2: true of the powers of two, as its name says.
is_pow2_named(x) == 2^clog2(x) = x

\* is_pow2(x): 2**clog2(x) != x, which is true when x is NOT a power of two.
is_pow2(x) == 2^clog2(x) # x

\* SnitchCluster.cfg_validate: the elif chain, then the warning.
cfg_validate(c) ==
    [failed |->
        IF c.addr_width < 30 THEN TRUE
        ELSE IF ~(c.data_width = 32 \/ c.data_width = 64) THEN TRUE
        ELSE IF c.dma_data_width <= 0 THEN TRUE
        ELSE IF c.dma_data_width % c.data_width # 0 THEN TRUE
        ELSE IF is_pow2(c.dma_data_width) THEN TRUE
        ELSE IF c.tcdm.size % c.tcdm.banks # 0 THEN TRUE
        ELSE IF is_pow2(c.tcdm.size) THEN TRUE
        ELSE IF is_pow2(c.tcdm.banks) THEN TRUE
        ELSE FALSE,
     warned |-> c.dma_data_width # 512]

\* The configurations cfg_validate is applied to: integer widths, positive
\* TCDM size and bank count.
ValidateInputs ==
    [addr_width : {29, 30, 32, 48},
     data_width : {16, 32, 48, 64},
     dma_data_width : {32 * k : k \in -1..MaxDmaWords},
     tcdm : [size : 1..MaxTcdmSize, banks : 1..MaxTcdmBanks]]

InitValidate ==
    /\ pc = "cfg_validate"
    /\ cfg \in ValidateInputs
    /\ failed = None /\ warned = None /\ tag_width = None /\ given = None
    /\ NoIsa /\ NoSchema /\ NoPma /\ NoMems

CfgValidate ==
    /\ pc = "cfg_validate"
    /\ failed' = cfg_validate(cfg).failed
    /\ warned' = cfg_validate(cfg).warned
    /\ pc' = "done"
    /\ UNCHANGED <<s, isa_ret, schema, instance, cfg, pma_cfg, tb_cfg,
                   tag_width, mems, mems_desc, calls, reports, given>>

NextValidate == CfgValidate

SpecValidate == InitValidate /\ [][NextValidate]_vars

\* The powers of two, stated without clog2: 1, and the doubles of powers
\* of two.
RECURSIVE IsPowerOfTwo(_)
IsPowerOfTwo(x) ==
    x = 1 \/ (x > 1 /\ x % 2 = 0 /\ IsPowerOfTwo(x \div 2))

\* The eight rules of the sanity check.
RulesHold(c) ==
    /\ c.addr_width >= 30
    /\ c.data_width \in {32, 64}
    /\ c.dma_data_width > 0
    /\ c.dma_data_width % c.data_width = 0
    /\ IsPowerOfTwo(c.dma_data_width)
    /\ c.tcdm.size % c.tcdm.banks = 0
    /\ IsPowerOfTwo(c.tcdm.size)
    /\ IsPowerOfTwo(c.tcdm.banks)

\* C4: cfg_validate reports failure if and only if at least one of the eight
\* rules is violated; the advisory for dma_data_width != 512 is raised
\* without causing failure.
ValidateFailsIffRuleViolated ==
    pc = "done" => /\ failed <=> ~RulesHold(cfg)
                   /\ warned <=> cfg.dma_data_width # 512

\* C4's case: tcdm.size = 96 with 8 banks, every other rule satisfied, is
\* reported as a failure.
ValidateWitness ==
    /\ pc = "done" /\ failed
    /\ cfg.tcdm.size = 96 /\ cfg.tcdm.banks = 8
    /\ cfg.addr_width = 32 /\ cfg.data_width = 64 /\ cfg.dma_data_width = 512

\* C4's other case: a configuration that satisfies the eight rules with
\* dma_data_width != 512 passes, with the advisory raised.
ValidateAdvisoryWitness ==
    pc = "done" /\ ~failed /\ warned /\ cfg.dma_data_width = 256

\* ========================================================================
\* Memory descriptor builder.
\* ========================================================================
\* `desc or ""`: None and the empty string are both false.
DescOrEmpty(desc) == IF desc = None \/ desc = "" THEN "" ELSE desc

\* The key tuple add_mem builds from its arguments.
MemKey(words, width, byte_enable, speed_optimized, density_optimized) ==
    <<width, words, 8, 1, 1, byte_enable, speed_optimized, density_optimized>>

\* A faulty variant of add_mem: a repeated key replaces the description list.
add_mem_overwrite(st, words, width, byte_enable, desc, speed_optimized, density_optimized) ==
    LET mem == MemKey(words, width, byte_enable, speed_optimized, density_optimized)
    IN  [mems |-> st.mems \cup {mem},
         mems_desc |->
            [k \in DOMAIN st.mems_desc \cup {mem} |->
                IF k = mem THEN <<DescOrEmpty(desc)>> ELSE st.mems_desc[k]]]

\* SnitchCluster.add_mem, on st = [mems, mems_desc]: the key is added to the
\* set; a key already in mems_desc gets desc appended as given, a new key
\* gets the one-element list [desc or ""].
add_mem(st, words, width, byte_enable, desc, speed_optimized, density_optimized) ==
    LET mem == MemKey(words, width, byte_enable, speed_optimized, density_optimized)
    IN  [mems |-> st.mems \cup {mem},
         mems_desc |->
            [k \in DOMAIN st.mems_desc \cup {mem} |->
                IF k # mem THEN st.mems_desc[k]
                ELSE IF mem \in DOMAIN st.mems_desc
                     THEN st.mems_desc[mem] \o <<desc>>
                     ELSE <<DescOrEmpty(desc)>>]]

\* The arguments add_mem is called with: <<words, width, byte_enable,
\* speed_optimized, density_optimized>>, each differing from the first in
\* one component, and the descriptions (None when desc is left out).
AddMemShapes ==
    {<<256, 64, TRUE, TRUE, FALSE>>, <<512, 64, TRUE, TRUE, FALSE>>,
     <<256, 32, TRUE, TRUE, FALSE>>, <<256, 64, FALSE, TRUE, FALSE>>,
     <<256, 64, TRUE, FALSE, FALSE>>, <<256, 64, TRUE, TRUE, TRUE>>}
AddMemDescs == {None, "tcdm", "icache"}

\* SnitchCluster.__init__: mems = set(), mems_desc = dict().
InitAddMem ==
    /\ pc = "add_mem"
    /\ mems = {} /\ mems_desc = <<>>
    /\ calls = <<>> /\ reports = None
    /\ NoIsa /\ NoSchema /\ NoCfg /\ NoPma

AddMem ==
    /\ pc = "add_mem"
    /\ Len(calls) < MaxAddMem
    /\ \E shape \in AddMemShapes, desc \in AddMemDescs :
          LET st == add_mem([mems |-> mems, mems_desc |-> mems_desc], shape[1],
                            shape[2], shape[3], desc, shape[4], shape[5])
          IN  /\ mems' = st.mems
              /\ mems_desc' = st.mems_desc
              /\ calls' = Append(calls,
                     [words |-> shape[1], width |-> shape[2], byte_enable |-> shape[3],
                      desc |-> desc, speed_optimized |-> shape[4],
                      density_optimized |-> shape[5]])
    /\ UNCHANGED <<pc, s, isa_ret, schema, instance, cfg, failed, warned, pma_cfg,
                   tb_cfg, tag_width, reports, given>>

NextAddMem == AddMem

SpecAddMem == InitAddMem /\ [][NextAddMem]_vars

\* The key tuple (width, words, byte_width, ports, latency, byte_enable,
\* speed_optimized, density_optimized) a call asks for.
RequestedKey(c) ==
    <<c.width, c.words, 8, 1, 1, c.byte_enable, c.speed_optimized,
      c.density_optimized>>

\* The descriptions of the calls made with key k, in call order.
RECURSIVE DescsGiven(_, _)
DescsGiven(log, k) ==
    IF log = <<>> THEN <<>>
    ELSE IF RequestedKey(Head(log)) = k
         THEN <<Head(log).desc>> \o DescsGiven(Tail(log), k)
         ELSE DescsGiven(Tail(log), k)

\* C3: after any sequence of add_mem calls the table holds one descriptor
\* per distinct key requested, mems and mems_desc have the same keys, and
\* the description list of a key has one entry per call made with that key,
\* in call order, each description that was given standing at its call's
\* place (a call made without a description leaves "" when it creates the
\* descriptor and None when it joins one).
AddMemDeduplicates ==
    pc = "add_mem" =>
        /\ mems = {RequestedKey(calls[n]) : n \in 1..Len(calls)}
        /\ DOMAIN mems_desc = mems
        /\ \A k \in mems :
              LET descs == DescsGiven(calls, k)
              IN  /\ Len(mems_desc[k]) = Len(descs)
                  /\ \A n \in 1..Len(descs) :
                        mems_desc[k][n] =
                            IF descs[n] # None THEN descs[n]
                            ELSE IF n = 1 THEN "" ELSE None

\* C3's case: two calls with one key and different descriptions have left
\* one descriptor listing both, in call order.
AddMemWitness ==
    /\ pc = "add_mem" /\ Len(calls) = 2
    /\ calls[1].desc = "tcdm" /\ calls[2].desc = "icache"
    /\ RequestedKey(calls[1]) = RequestedKey(calls[2])
    /\ Cardinality(mems) = 1
    /\ \A k \in mems : mems_desc[k] = <<"tcdm", "icache">>

\* ========================================================================
\* Parameter derivation and the memory map.
\* ========================================================================
\* d[key] = value on a dict: the key is created when d has none.
setitem(d, key, value) ==
    [k \in DOMAIN d \cup {key} |-> IF k = key THEN value ELSE d[k]]

\* The loop of calc_cache_sizes from hive i on (1-based here, 0-based in
\* the code): hive i gets its icache depth, and the one attribute tag_width
\* is assigned from hive i, replacing what an earlier hive left there.
RECURSIVE calc_icache_loop(_, _, _)
calc_icache_loop(c, tw, i) ==
    IF i > Len(c.hives) THEN [cfg |-> c, tag_width |-> tw]
    ELSE LET icache == c.hives[i].icache
             cl_bytes == icache.cacheline \div 8
             depth == (((icache.size * 1024) \div icache.sets) \div cl_bytes)
             c2 == [c EXCEPT !.hives[i].icache = setitem(icache, "depth", depth)]
         IN  calc_icache_loop(c2,
                 c.addr_width - clog2(icache.cacheline \div 8) - clog2(depth) + 3,
                 i + 1)

\* SnitchCluster.calc_cache_sizes: the TCDM depth, then the loop over hives.
calc_cache_sizes(c, tw) ==
    LET tcdm_bytes == c.data_width \div 8
        depth == (c.tcdm.size * 1024) \div (c.tcdm.banks * tcdm_bytes)
    IN  calc_icache_loop([c EXCEPT !.tcdm = setitem(c.tcdm, "depth", depth)], tw, 1)

\* 'icache data (hive {})'.format(i) and 'icache tag (hive {})'.format(i).
IcacheDataDesc(i) == "icache data (hive " \o ToString(i) \o ")"
IcacheTagDesc(i) == "icache tag (hive " \o ToString(i) \o ")"

\* The loop of memory_cfg over the hives, from hive i on: a data memory of
\* the hive's cacheline width, and a tag memory of width self.tag_width.
RECURSIVE memory_cfg_loop(_, _, _, _)
memory_cfg_loop(st, c, tw, i) ==
    IF i > Len(c.hives) THEN st
    ELSE LET h == c.hives[i]
             st1 == add_mem(st, h.icache.depth, h.icache.cacheline, FALSE,
                            IcacheDataDesc(i - 1), TRUE, FALSE)
             st2 == add_mem(st1, h.icache.depth, tw, FALSE,
                            IcacheTagDesc(i - 1), TRUE, FALSE)
         IN  memory_cfg_loop(st2, c, tw, i + 1)

\* What memory_cfg serialises: one object per key of mems.
MemoryManifest(st) ==
    {[description |-> st.mems_desc[mem], width |-> mem[1], words |-> mem[2],
      byte_width |-> mem[3], ports |-> mem[4], latency |-> mem[5],
      byte_enable |-> mem[6], speed_optimized |-> mem[7],
      density_optimized |-> mem[8]] : mem \in st.mems}

\* SnitchCluster.memory_cfg: the add_mem calls on the cluster's own mems
\* and mems_desc, then the manifest of everything they hold.
memory_cfg(st, c, tw) ==
    LET after == memory_cfg_loop(
                    add_mem(st, c.tcdm.depth, c.data_width, TRUE, "tcdm", TRUE, FALSE),
                    c, tw, 1)
    IN  [mems |-> after.mems, mems_desc |-> after.mems_desc,
         ret |-> MemoryManifest(after)]

\* The validated documents the derivation runs on.
IcacheInputs == [size : {8, 16}, sets : {2, 4}, cacheline : {128, 256}]
HiveInputs == [icache : IcacheInputs]
MemCfgInputs ==
    [addr_width : {32, 48}, data_width : {32, 64},
     tcdm : [size : {128}, banks : {8, 32}],
     hives : SeqsUpTo(HiveInputs, MaxHives)]

InitMemCfg ==
    /\ pc = "calc_cache_sizes"
    /\ cfg \in MemCfgInputs
    /\ failed = None /\ warned = None /\ tag_width = None /\ given = None
    /\ mems = {} /\ mems_desc = <<>>
    /\ calls = None /\ reports = <<>>
    /\ NoIsa /\ NoSchema /\ NoPma

CalcCacheSizes ==
    /\ pc = "calc_cache_sizes"
    /\ cfg' = calc_cache_sizes(cfg, tag_width).cfg
    /\ tag_width' = calc_cache_sizes(cfg, tag_width).tag_width
    /\ pc' = "constructed"
    /\ UNCHANGED <<s, isa_ret, schema, instance, failed, warned, pma_cfg, tb_cfg,
                   mems, mems_desc, calls, reports, given>>

MemoryCfg ==
    /\ pc = "constructed"
    /\ Len(reports) < MaxMemoryCfgCalls
    /\ LET r == memory_cfg([mems |-> mems, mems_desc |-> mems_desc], cfg, tag_width)
       IN  /\ mems' = r.mems
           /\ mems_desc' = r.mems_desc
           /\ reports' = Append(reports, r.ret)
    /\ UNCHANGED <<pc, s, isa_ret, schema, instance, cfg, failed, warned, pma_cfg,
                   tb_cfg, tag_width, calls, given>>

NextMemCfg == CalcCacheSizes \/ MemoryCfg

SpecMemCfg == InitMemCfg /\ [][NextMemCfg]_vars

\* The tag width of hive i by the formula of the derivation:
\* addr_width - clog2(cacheline/8) - clog2(depth) + 3.
OwnTagWidth(c, i) ==
    LET icache == c.hives[i].icache
    IN  c.addr_width - clog2(icache.cacheline \div 8)
            - clog2((icache.size * 1024) \div (icache.sets * (icache.cacheline \div 8)))
            + 3

\* C9: memory_cfg requests for each hive an icache-tag memory whose width is
\* that hive's own tag width, also when the hives differ in their icache
\* parameters.
TagMemoryPerHive ==
    Len(reports) = 1 =>
        \A i \in 1..Len(cfg.hives) :
            \E d \in reports[1] :
                /\ d.width = OwnTagWidth(cfg, i)
                /\ d.words = cfg.hives[i].icache.depth
                /\ ~d.byte_enable
                /\ IcacheTagDesc(i - 1) \in Range(d.description)

\* C10: building the memory map is repeatable: every call of memory_cfg on a
\* constructed cluster returns what the first call returned.
MemoryCfgRepeatable ==
    \A n \in 1..Len(reports) : reports[n] = reports[1]

\* ========================================================================
\* PMA classifier.  Addresses and lengths are counted in units of 0x1000
\* bytes: 0x80000 stands for 0x8000_0000.
\* ========================================================================
\* class PMA(Enum).
PMA == [ATOMIC |-> 1, CACHED |-> 2, EXECUTE |-> 3, NON_IDEMPOTENT |-> 4]

\* PMACfg.add_region: the tuple is appended to regions.
add_region(regions, pma, base, mask) == Append(regions, <<pma, base, mask>>)

\* A faulty variant of parse_pma_cfg's loop: a region already listed is skipped.
RECURSIVE cached_loop_dedup(_, _)
cached_loop_dedup(cached, regions) ==
    IF regions = <<>> THEN cached
    ELSE LET pma == Head(regions)
         IN  cached_loop_dedup(
                 IF pma[1] = PMA.CACHED /\ <<pma[2], pma[3]>> \notin Range(cached)
                 THEN Append(cached, <<pma[2], pma[3]>>) ELSE cached,
                 Tail(regions))

\* The loop of parse_pma_cfg over pma_cfg.regions.
RECURSIVE cached_loop(_, _)
cached_loop(cached, regions) ==
    IF regions = <<>> THEN cached
    ELSE LET pma == Head(regions)
         IN  cached_loop(
                 IF pma[1] = PMA.CACHED
                 THEN Append(cached, <<pma[2], pma[3]>>) ELSE cached,
                 Tail(regions))

\* SnitchCluster.parse_pma_cfg: cfg['pmas'] is a new dict whose 'cached'
\* list is filled by the loop.
parse_pma_cfg(c, regions) ==
    setitem(c, "pmas", [cached |-> cached_loop(<<>>, regions)])

\* The regions add_region is called with.
RegionAttributes == {PMA.ATOMIC, PMA.CACHED, PMA.EXECUTE, PMA.NON_IDEMPOTENT}
RegionBases == {524288, 524289}
RegionLengths == {1, 2}

\* PMACfg.__init__: regions = list(); the cluster's document is any dict.
InitPma ==
    /\ pc = "add_region"
    /\ pma_cfg = <<>> /\ tb_cfg = None
    /\ cfg = [name |-> "snitch"]
    /\ failed = None /\ warned = None /\ tag_width = None /\ given = None
    /\ NoIsa /\ NoSchema /\ NoMems

AddRegion ==
    /\ pc = "add_region"
    /\ Len(pma_cfg) < MaxRegions
    /\ \E pma \in RegionAttributes, base \in RegionBases, mask \in RegionLengths :
          pma_cfg' = add_region(pma_cfg, pma, base, mask)
    /\ UNCHANGED <<pc, s, isa_ret, schema, instance, cfg, failed, warned, tb_cfg,
                   tag_width, mems, mems_desc, calls, reports, given>>

ParsePmaCfg ==
    /\ pc = "add_region"
    /\ cfg' = parse_pma_cfg(cfg, pma_cfg)
    /\ pc' = "done"
    /\ UNCHANGED <<s, isa_ret, schema, instance, failed, warned, pma_cfg, tb_cfg,
                   tag_width, mems, mems_desc, calls, reports, given>>

NextPma == AddRegion \/ ParsePmaCfg

SpecPma == InitPma /\ [][NextPma]_vars

\* The positions of the CACHED regions among the declared ones.
RECURSIVE CachedPositions(_, _)
CachedPositions(regions, n) ==
    IF n > Len(regions) THEN <<>>
    ELSE (IF regions[n][1] = PMA.CACHED THEN <<n>> ELSE <<>>)
            \o CachedPositions(regions, n + 1)

\* C5: parse_pma_cfg writes into cfg.pmas.cached the (base, length) pairs of
\* the regions whose attribute is CACHED, in the order they were added, one
\* entry per declared CACHED region: nothing is merged, dropped or added.
PmaCachedVerbatim ==
    pc = "done" =>
        LET at == CachedPositions(pma_cfg, 1)
        IN  /\ Len(cfg.pmas.cached) = Len(at)
            /\ \A n \in 1..Len(at) :
                  cfg.pmas.cached[n] = <<pma_cfg[at[n]][2], pma_cfg[at[n]][3]>>

\* C5's case: two adjacent CACHED regions, (0x8000_0000, 0x1000) and
\* (0x8000_1000, 0x1000), with a region of another attribute between them,
\* give two entries.
PmaWitness ==
    /\ pc = "done"
    /\ pma_cfg = <<<<PMA.CACHED, 524288, 1>>, <<PMA.ATOMIC, 524288, 2>>,
                   <<PMA.CACHED, 524289, 1>>>>
    /\ cfg.pmas.cached = <<<<524288, 1>>, <<524289, 1>>>>

\* ========================================================================
\* Construction of a SnitchCluster, directly or inside a SnitchClusterTB.
\* The schema documents are not part of cluster.py: Generator.validate
\* either raises ValidationError, and exits, or returns; it adds defaults
\* for absent keys only, and the documents here give every key that the
\* constructor reads.
\* ========================================================================
\* The loop of parse_cores from core j of hive i on (1-based here): the
\* core dict gets 'hive' and 'isa_parsed' in place and a copy joins cores;
\* a ValueError of parse_isa_string leaves the loop with what was written.
RECURSIVE parse_cores_loop(_, _, _, _)
parse_cores_loop(c, cores, i, j) ==
    IF i > Len(c.hives)
    THEN [raised |-> FALSE,
          cfg |-> setitem(setitem(setitem(c, "nr_hives", Len(c.hives)),
                                  "nr_cores", Len(cores)),
                          "cores", cores)]
    ELSE IF j > Len(c.hives[i].cores) THEN parse_cores_loop(c, cores, i + 1, 1)
    ELSE LET core1 == setitem(c.hives[i].cores[j], "hive", i - 1)
             r == parse_isa_string(core1.isa)
         IN  IF r.raised
             THEN [raised |-> TRUE, cfg |-> [c EXCEPT !.hives[i].cores[j] = core1]]
             ELSE LET core2 == setitem(core1, "isa_parsed", r.isa)
                  IN  parse_cores_loop([c EXCEPT !.hives[i].cores[j] = core2],
                                       Append(cores, core2), i, j + 1)

\* SnitchCluster.parse_cores.
parse_cores(c) == parse_cores_loop(c, <<>>, 1, 1)

\* The documents a cluster is constructed from.
ClusterIsas == {<<"r","v","3","2","i","m","a","f","d">>, <<"r","v","6","4","i">>}
ClusterHives ==
    [icache : [size : {8}, sets : {2}, cacheline : {128}],
     cores : SeqsUpTo([isa : ClusterIsas], MaxCores)]
ClusterInputs ==
    [name : {"snitch"}, addr_width : {29, 32}, data_width : {64},
     dma_data_width : {512}, tcdm : [size : {128}, banks : {8}],
     hives : SeqsUpTo(ClusterHives, MaxHives)]
\* The PMACfg a caller passes to SnitchCluster.
ClusterPmaInputs ==
    {<<>>, <<<<PMA.CACHED, 524288, 1>>>>,
     <<<<PMA.EXECUTE, 524288, 2>>, <<PMA.CACHED, 524289, 1>>>>}
\* The testbench documents: the DRAM, and a cluster document that leaves
\* tie_ports out or gives it either value.
TbDramInputs == [dram : [address : {524288}, length : {2}]]
TbClusterInputs ==
    ClusterInputs \cup {setitem(c, "tie_ports", v) : c \in ClusterInputs, v \in BOOLEAN}

InitCluster ==
    /\ \/ /\ pc = "SnitchCluster"
          /\ cfg \in ClusterInputs
          /\ pma_cfg \in ClusterPmaInputs
          /\ tb_cfg = <<>>
       \/ /\ pc = "SnitchClusterTB"
          /\ cfg \in TbClusterInputs
          /\ pma_cfg = None
          /\ tb_cfg \in TbDramInputs
    /\ given = cfg
    /\ failed = None /\ warned = None /\ tag_width = None
    /\ NoIsa /\ NoSchema /\ NoMems

\* SnitchClusterTB.__init__: self.validate(cfg); self.cfg = cfg.
TbValidate ==
    /\ pc = "SnitchClusterTB"
    /\ \E ok \in BOOLEAN : pc' = IF ok THEN "tb_add_region" ELSE "tb_exit_schema"
    /\ UNCHANGED <<s, isa_ret, schema, instance, cfg, failed, warned, pma_cfg,
                   tb_cfg, tag_width, mems, mems_desc, calls, reports, given>>

\* pma_cfg = PMACfg(); pma_cfg.add_region(PMA.CACHED, dram address, length).
TbAddRegion ==
    /\ pc = "tb_add_region"
    /\ pma_cfg' = add_region(<<>>, PMA.CACHED, tb_cfg.dram.address, tb_cfg.dram.length)
    /\ pc' = "tb_tie_ports"
    /\ UNCHANGED <<s, isa_ret, schema, instance, cfg, failed, warned, tb_cfg,
                   tag_width, mems, mems_desc, calls, reports, given>>

\* A faulty variant of TbTiePorts: the flag is set only when the document has none.
TbTiePortsDefault ==
    /\ pc = "tb_tie_ports"
    /\ cfg' = IF "tie_ports" \in DOMAIN cfg THEN cfg ELSE setitem(cfg, "tie_ports", TRUE)
    /\ pc' = "SnitchCluster"
    /\ UNCHANGED <<s, isa_ret, schema, instance, failed, warned, pma_cfg, tb_cfg,
                   tag_width, mems, mems_desc, calls, reports, given>>

\* self.cfg['cluster']['tie_ports'] = True, then SnitchCluster(cfg["cluster"],
\* pma_cfg) is entered.
TbTiePorts ==
    /\ pc = "tb_tie_ports"
    /\ cfg' = setitem(cfg, "tie_ports", TRUE)
    /\ pc' = "SnitchCluster"
    /\ UNCHANGED <<s, isa_ret, schema, instance, failed, warned, pma_cfg, tb_cfg,
                   tag_width, mems, mems_desc, calls, reports, given>>

\* SnitchCluster.__init__: mems = set(); mems_desc = dict();
\* self.validate(cfg), which exits on a ValidationError; self.cfg = cfg.
ClusterValidate ==
    /\ pc = "SnitchCluster"
    /\ mems' = {} /\ mems_desc' = <<>>
    /\ \E ok \in BOOLEAN : pc' = IF ok THEN "cfg_validate" ELSE "exit_schema"
    /\ UNCHANGED <<s, isa_ret, schema, instance, cfg, failed, warned, pma_cfg,
                   tb_cfg, tag_width, calls, reports, given>>

\* A faulty variant of ClusterCfgValidate: the derivation runs before the outcome
\* of the sanity check is looked at.
ClusterCfgValidateLate ==
    /\ pc = "cfg_validate"
    /\ failed' = cfg_validate(cfg).failed
    /\ warned' = cfg_validate(cfg).warned
    /\ cfg' = calc_cache_sizes(cfg, tag_width).cfg
    /\ tag_width' = calc_cache_sizes(cfg, tag_width).tag_width
    /\ pc' = IF cfg_validate(cfg).failed THEN "exit_sanity" ELSE "pkg_name"
    /\ UNCHANGED <<s, isa_ret, schema, instance, pma_cfg, tb_cfg,
                   mems, mems_desc, calls, reports, given>>

\* if self.cfg_validate(): exit("Failed parameter validation.")
ClusterCfgValidate ==
    /\ pc = "cfg_validate"
    /\ failed' = cfg_validate(cfg).failed
    /\ warned' = cfg_validate(cfg).warned
    /\ pc' = IF cfg_validate(cfg).failed THEN "exit_sanity" ELSE "pkg_name"
    /\ UNCHANGED <<s, isa_ret, schema, instance, cfg, pma_cfg, tb_cfg,
                   tag_width, mems, mems_desc, calls, reports, given>>

\* self.cfg['pkg_name'] = "{}_pkg".format(self.cfg['name'])
ClusterPkgName ==
    /\ pc = "pkg_name"
    /\ cfg' = setitem(cfg, "pkg_name", cfg.name \o "_pkg")
    /\ pc' = "calc_cache_sizes"
    /\ UNCHANGED <<s, isa_ret, schema, instance, failed, warned, pma_cfg, tb_cfg,
                   tag_width, mems, mems_desc, calls, reports, given>>

\* self.calc_cache_sizes()
ClusterCalcCacheSizes ==
    /\ pc = "calc_cache_sizes"
    /\ cfg' = calc_cache_sizes(cfg, tag_width).cfg
    /\ tag_width' = calc_cache_sizes(cfg, tag_width).tag_width
    /\ pc' = "parse_pma_cfg"
    /\ UNCHANGED <<s, isa_ret, schema, instance, failed, warned, pma_cfg, tb_cfg,
                   mems, mems_desc, calls, reports, given>>

\* self.parse_pma_cfg(pma_cfg)
ClusterParsePmaCfg ==
    /\ pc = "parse_pma_cfg"
    /\ cfg' = parse_pma_cfg(cfg, pma_cfg)
    /\ pc' = "parse_cores"
    /\ UNCHANGED <<s, isa_ret, schema, instance, failed, warned, pma_cfg, tb_cfg,
                   tag_width, mems, mems_desc, calls, reports, given>>

\* self.parse_cores(): the ValueError of a malformed ISA string leaves the
\* constructor.
ClusterParseCores ==
    /\ pc = "parse_cores"
    /\ cfg' = parse_cores(cfg).cfg
    /\ pc' = IF parse_cores(cfg).raised THEN "raise_isa" ELSE "done"
    /\ UNCHANGED <<s, isa_ret, schema, instance, failed, warned, pma_cfg, tb_cfg,
                   tag_width, mems, mems_desc, calls, reports, given>>

NextCluster ==
    \/ TbValidate \/ TbAddRegion \/ TbTiePorts
    \/ ClusterValidate \/ ClusterCfgValidate \/ ClusterPkgName
    \/ ClusterCalcCacheSizes \/ ClusterParsePmaCfg \/ ClusterParseCores

SpecCluster == InitCluster /\ [][NextCluster]_vars

\* The derived fields of the document: pkg_name, tcdm.depth, each hive's
\* icache.depth, pmas, cores, nr_hives and nr_cores.
DerivedWritten(c) ==
    \/ {"pkg_name", "pmas", "cores", "nr_hives", "nr_cores"} \cap DOMAIN c # {}
    \/ "depth" \in DOMAIN c.tcdm
    \/ \E i \in 1..Len(c.hives) : "depth" \in DOMAIN c.hives[i].icache

\* The derivation has run: pkg_name and every depth are in the document.
DerivationDone(c) ==
    /\ "pkg_name" \in DOMAIN c
    /\ "depth" \in DOMAIN c.tcdm
    /\ \A i \in 1..Len(c.hives) : "depth" \in DOMAIN c.hives[i].icache

\* C6 as claimed: in any aborted construction (schema violation, failed
\* sanity check, or the ValueError of a malformed ISA string) none of the
\* derived fields has been written to the document.
NoDerivedFieldInAnyAbortedRun ==
    pc \in {"tb_exit_schema", "exit_schema", "exit_sanity", "raise_isa"}
        => ~DerivedWritten(cfg)

\* C6, amended: the steps run in the order schema validation, cfg_validate,
\* derivation (pkg_name, calc_cache_sizes), parse_pma_cfg, parse_cores; a
\* construction aborted by schema validation or by cfg_validate has written
\* none of the derived fields, and the derivation runs only after
\* cfg_validate has passed.
ConstructionOrder ==
    /\ pc \in {"SnitchClusterTB", "tb_add_region", "tb_tie_ports", "tb_exit_schema",
               "SnitchCluster", "exit_schema", "cfg_validate", "exit_sanity",
               "pkg_name"}
          => ~DerivedWritten(cfg)
    /\ pc = "exit_sanity" => failed
    /\ pc \in {"pkg_name", "calc_cache_sizes", "parse_pma_cfg", "parse_cores",
               "raise_isa", "done"}
          => ~failed
    /\ pc = "calc_cache_sizes"
          => "pkg_name" \in DOMAIN cfg /\ "depth" \notin DOMAIN cfg.tcdm
    /\ pc = "parse_pma_cfg" => DerivationDone(cfg) /\ "pmas" \notin DOMAIN cfg
    /\ pc \in {"parse_cores", "raise_isa"}
          => /\ DerivationDone(cfg) /\ "pmas" \in DOMAIN cfg
             /\ {"cores", "nr_hives", "nr_cores"} \cap DOMAIN cfg = {}
    /\ pc = "done"
          => /\ DerivationDone(cfg)
             /\ {"pmas", "cores", "nr_hives", "nr_cores"} \subseteq DOMAIN cfg

\* C6's case: a construction aborted by cfg_validate (addr_width below 30)
\* of a document with a hive, left as the caller passed it.
ConstructionWitness ==
    /\ pc = "exit_sanity" /\ failed
    /\ Len(cfg.hives) > 0
    /\ ~DerivedWritten(cfg)

\* Whether the run constructs a SnitchClusterTB.
IsTestbench == "dram" \in DOMAIN tb_cfg

\* C7: inside a SnitchClusterTB the cluster's tie_ports is true from the
\* moment the inner SnitchCluster is entered, whatever the input gave, and
\* after construction the cluster's pmas.cached is the single entry
\* (dram.address, dram.length).
TestbenchForcesTiePortsAndDram ==
    IsTestbench =>
        /\ pc \in {"SnitchCluster", "exit_schema", "cfg_validate", "exit_sanity",
                   "pkg_name", "calc_cache_sizes", "parse_pma_cfg", "parse_cores",
                   "raise_isa", "done"}
              => "tie_ports" \in DOMAIN cfg /\ cfg.tie_ports = TRUE
        /\ pc = "done"
              => cfg.pmas.cached = <<<<tb_cfg.dram.address, tb_cfg.dram.length>>>>

\* C7's case: a constructed testbench whose input gave tie_ports false.
TestbenchWitness ==
    /\ IsTestbench /\ pc = "done"
    /\ "tie_ports" \in DOMAIN given /\ given.tie_ports = FALSE
    /\ cfg.tie_ports = TRUE
    /\ cfg.pmas.cached = <<<<524288, 2>>>>

\* ========================================================================
\* Schema validation with default-filling.  A JSON value is [t, v, m]: an
\* integer v (t = "int") or an object with members m (t = "object"); a
\* schema is [type, has_default, default, properties], properties being
\* empty for a schema without the keyword.
\* ========================================================================
Integer(n) == [t |-> "int", v |-> n, m |-> <<>>]
Object(members) == [t |-> "object", v |-> 0, m |-> members]
PropertyNames == {"a", "o"}

\* set_defaults, lines 23-25: instance.setdefault(property, default) for
\* the properties whose subschema declares a default.
set_defaults(properties, members) ==
    [k \in DOMAIN members \cup {q \in DOMAIN properties : properties[q].has_default} |->
        IF k \in DOMAIN members THEN members[k] ELSE properties[k].default]

\* The validator run on one schema and instance: [ok, instance].  The type
\* keyword is checked; the properties keyword runs set_defaults and then
\* jsonschema's own validate_properties, which descends into the properties
\* that the instance holds.  An instance that is no object fails (the type
\* error; set_defaults has no dict to fill).
RECURSIVE iter_errors(_, _)
iter_errors(sch, inst) ==
    LET type_ok == \/ sch.type = "integer" /\ inst.t = "int"
                   \/ sch.type = "object" /\ inst.t = "object"
    IN  IF DOMAIN sch.properties = {} THEN [ok |-> type_ok, instance |-> inst]
        ELSE IF inst.t # "object" THEN [ok |-> FALSE, instance |-> inst]
        ELSE LET filled == set_defaults(sch.properties, inst.m)
                 sub == [k \in DOMAIN filled |->
                            IF k \in DOMAIN sch.properties
                            THEN iter_errors(sch.properties[k], filled[k])
                            ELSE [ok |-> TRUE, instance |-> filled[k]]]
             IN  [ok |-> type_ok /\ \A k \in DOMAIN filled : sub[k].ok,
                  instance |-> Object([k \in DOMAIN filled |-> sub[k].instance])]

\* The schemas: integers with or without a default, and objects, with or
\* without the default {}, whose property a is an integer and whose
\* property o is any schema one level down.
IntegerSchemas ==
    [type : {"integer"}, has_default : BOOLEAN, default : {Integer(7)},
     properties : {<<>>}]
RECURSIVE Schemas(_)
Schemas(depth) ==
    IF depth = 0 THEN IntegerSchemas
    ELSE IntegerSchemas \cup
         [type : {"object"}, has_default : BOOLEAN, default : {Object(<<>>)},
          properties : [PropertyNames -> Schemas(depth - 1)]]
RootSchemas == {sch \in Schemas(MaxSchemaDepth) : sch.type = "object"}

\* The documents: objects that leave out or give each property.
RECURSIVE Values(_)
Values(depth) ==
    IF depth = 0 THEN {Integer(1)}
    ELSE {Integer(1)} \cup
         {Object(members) :
            members \in UNION {[names -> Values(depth - 1)] :
                                 names \in SUBSET PropertyNames}}
RootInstances == {doc \in Values(MaxSchemaDepth) : doc.t = "object"}

InitDefaults ==
    /\ pc = "validate"
    /\ schema \in RootSchemas
    /\ instance \in RootInstances
    /\ given = instance
    /\ cfg = None /\ failed = None /\ warned = None /\ tag_width = None
    /\ NoIsa /\ NoPma /\ NoMems

\* Generator.validate: the document is filled in place; a ValidationError
\* ends the process.
Validate ==
    /\ pc = "validate"
    /\ instance' = iter_errors(schema, instance).instance
    /\ pc' = IF iter_errors(schema, instance).ok THEN "validated" ELSE "exit_schema"
    /\ UNCHANGED <<s, isa_ret, schema, cfg, failed, warned, pma_cfg, tb_cfg,
                   tag_width, mems, mems_desc, calls, reports, given>>

NextDefaults == Validate

SpecDefaults == InitDefaults /\ [][NextDefaults]_vars

\* The member k of a value, Absent when the value is no object holding k.
Absent == [t |-> "absent", v |-> 0, m |-> <<>>]
Member(val, k) ==
    IF val.t = "object" /\ k \in DOMAIN val.m THEN val.m[k] ELSE Absent

\* Below schema sch, with the document as passed (before) and as validated
\* (after): every property that declares a default and is left out of the
\* document, its enclosing object being there or not, holds the default
\* (an integer default as declared, an object default as an object), and an
\* integer that the document gave is still there.
RECURSIVE DefaultsTotal(_, _, _)
DefaultsTotal(sch, before, after) ==
    \A k \in DOMAIN sch.properties :
        LET sub == sch.properties[k]
            b == Member(before, k)
            a == Member(after, k)
        IN  /\ sub.has_default /\ b.t = "absent"
                => IF sub.type = "integer" THEN a = sub.default ELSE a.t = "object"
            /\ b.t = "int" => a = b
            /\ DefaultsTotal(sub, b, a)

\* C8: after validation every schema property that declares a default, at
\* any depth, holds that default in a document that left it out, also when
\* the document left out the enclosing object; and a property given in the
\* input is not overwritten by its default.
DefaultFillingTotal ==
    pc = "validated" => DefaultsTotal(schema, given, instance)

====
